---- MODULE Spec2Model ----
(***************************************************************************)
(* Model of the ParallaxController of slablab.ai: the inline class of      *)
(* contact.js / main.js and the exported class of js/modules/utils.js,     *)
(* together with the parts of the browser it talks to: the window's scroll *)
(* listener list, the animation-frame callback list, window.pageYOffset    *)
(* and the style.transform of the three layer elements.  Further down:     *)
(* the contact form of contact.js (validation, submission, the promise     *)
(* chain of fetch) and the ThemeController, each under a specification of  *)
(* its own in which the other components stay as the page loaded them.     *)
(*                                                                         *)
(* Scroll positions are fixed-point: one position unit is 1/Scale CSS      *)
(* pixel.  A translation is kept in tenths of a position unit, so that the *)
(* multipliers -0.2, -0.5 and -0.8 are the integers -2, -5 and -8.         *)
(***************************************************************************)
EXTENDS Integers, Sequences, FiniteSets, TLC

\* ---------------------------------------------------------------- bounds
Scale == 2
MaxScroll == 3
MaxBurst == 2
MaxDestroy == 1

\* ------------------------------------------------------------- constants
Threshold == 1
MultBack == 0 - 2
MultMid == 0 - 5
MultFront == 0 - 8

Layers == {"back", "mid", "front"}
Variants == {"inline", "module"}
Positions == (0 - 1) .. MaxScroll
Null == "null"
Proto == 0
NoTransform == <<>>

VARIABLES
    variant,            \* which class the page loaded: inline or module
    phase,              \* "loaded" before new ParallaxController(), then "constructed"
    dom,                \* layers that document.querySelector finds right now
    pageYOffset,        \* window.pageYOffset, in position units
    scrollEventPending, \* the position changed and its scroll event is not dispatched yet
    listeners,          \* functions registered on window for 'scroll'
    rafQueue,           \* animation-frame callbacks requested and not yet run
    transform,          \* style.transform of each layer element
    elements,           \* this.elements
    ticking,            \* this.ticking
    lastScrollY,        \* this.lastScrollY
    thisHandleScroll,   \* the function this.handleScroll evaluates to
    nextFn,             \* identity of the next function object made by bind()
    destroyCalls,       \* number of destroy() calls so far
    raised,             \* a TypeError escaped from the controller
    lastOp,             \* history: the operation that produced this state
    written,            \* history: layers whose transform the last operation assigned
    ran,                \* history: executions of updateParallax in the last operation
    delivered,          \* history: handleScroll invocations since the last frame boundary
    burst,              \* history: value of delivered when the last frame boundary came
    reqY,               \* history: pageYOffset when the last frame callback was requested
    value,              \* contact form: value of each required field
    fieldError,         \* contact form: the field carries the class 'error'
    errorMessage,       \* contact form: the .error-message element beside the field
    buttonText,         \* contact form: textContent of the submit button
    buttonDisabled,     \* contact form: disabled of the submit button
    requests,           \* contact form: one record per request handleFormSubmit issued
    themePhase,         \* "loaded" before new ThemeController(), then "constructed"
    hasButton,          \* the page has the #theme-toggle button
    storageMode,        \* localStorage works, throws on every access, or throws on setItem
    stored,             \* localStorage item 'theme'
    systemDark,         \* the (prefers-color-scheme: dark) media query matches
    currentTheme,       \* this.currentTheme
    dataTheme,          \* attribute data-theme of the document element
    clickListeners,     \* functions registered on the button for 'click'
    changeListeners,    \* functions registered on the media query for 'change'
    toggling,           \* the button carries the class 'toggling'
    timers,             \* pending 600 ms timeouts of toggleTheme
    themeDestroyed,     \* history: ThemeController.destroy() has been called
    userClicked,        \* history: the user has clicked the toggle
    initialStored       \* history: localStorage item 'theme' when the page loaded

vars == <<variant, phase, dom, pageYOffset, scrollEventPending, listeners,
          rafQueue, transform, elements, ticking, lastScrollY,
          thisHandleScroll, nextFn, destroyCalls, raised, lastOp, written,
          ran, delivered, burst, reqY, value, fieldError, errorMessage,
          buttonText, buttonDisabled, requests, themePhase, hasButton,
          storageMode, stored, systemDark, currentTheme, dataTheme,
          clickListeners, changeListeners, toggling, timers, themeDestroyed,
          userClicked, initialStored>>

formVars == <<value, fieldError, errorMessage, buttonText, buttonDisabled,
              requests>>

themeVars == <<themePhase, hasButton, storageMode, stored, systemDark,
               currentTheme, dataTheme, clickListeners, changeListeners,
               toggling, timers, themeDestroyed, userClicked, initialStored>>

\* What the parallax controller owns, apart from the scroll position.
parallaxVars == <<variant, phase, dom, listeners, rafQueue, transform,
                  elements, ticking, lastScrollY, thisHandleScroll, nextFn,
                  destroyCalls, raised, delivered, burst, reqY>>

Abs(x) == IF x < 0 THEN 0 - x ELSE x

\* ------------------------------------------------------- pure operators
MultiplierSwapped(l) ==
    CASE l = "back" -> MultBack
      [] l = "mid" -> MultFront
      [] l = "front" -> MultMid

Multiplier(l) ==
    CASE l = "back" -> MultBack
      [] l = "mid" -> MultMid
      [] l = "front" -> MultFront

Rank(l) ==
    CASE l = "back" -> 1
      [] l = "mid" -> 2
      [] l = "front" -> 3

translate3d(x, y, z) == <<x, y, z>>

querySelector(d, l) == IF l \in d THEN l ELSE Null

hasParallaxElements(els) == \E l \in Layers : els[l] # Null

LayerGuardNone(els, l) == TRUE

LayerGuard(els, l) == els[l] # Null

belowThresholdLE(scrolled, last) == Abs(scrolled - last) <= Threshold * Scale

belowThreshold(scrolled, last) == Abs(scrolled - last) < Threshold * Scale

\* The mutable state the controller's methods act on, as one record.
Cur ==
    [ticking |-> ticking, lastScrollY |-> lastScrollY, transform |-> transform,
     rafQueue |-> rafQueue, raised |-> raised, written |-> {}, ran |-> 0,
     reqY |-> reqY]

Commit(m) ==
    /\ ticking' = m.ticking
    /\ lastScrollY' = m.lastScrollY
    /\ transform' = m.transform
    /\ rafQueue' = m.rafQueue
    /\ raised' = m.raised
    /\ written' = m.written
    /\ ran' = m.ran
    /\ reqY' = m.reqY

handleScrollNoGuard(m) ==
    [m EXCEPT !.rafQueue = Append(@, "updateParallax"),
              !.reqY = pageYOffset,
              !.ticking = TRUE]

handleScrollNoFlag(m) ==
    IF ~m.ticking
    THEN [m EXCEPT !.rafQueue = Append(@, "updateParallax"),
                   !.reqY = pageYOffset]
    ELSE m

handleScroll(m) ==
    IF ~m.ticking
    THEN [m EXCEPT !.rafQueue = Append(@, "updateParallax"),
                   !.reqY = pageYOffset,
                   !.ticking = TRUE]
    ELSE m

skipUpdateStuck(m) == [m EXCEPT !.ran = @ + 1]

skipUpdate(m) == [m EXCEPT !.ticking = FALSE, !.ran = @ + 1]

applyUpdate(m, els, scrolled) ==
    IF belowThreshold(scrolled, m.lastScrollY)
    THEN skipUpdate(m)
    ELSE
        LET attempted == {l \in Layers : LayerGuard(els, l)}
            failing == {l \in attempted : els[l] = Null}
        IN  IF failing = {}
            THEN [m EXCEPT
                    !.transform = [l \in Layers |->
                        IF l \in attempted
                        THEN translate3d(0, scrolled * Multiplier(l), 0)
                        ELSE @[l]],
                    !.written = @ \cup attempted,
                    !.lastScrollY = scrolled,
                    !.ticking = FALSE,
                    !.ran = @ + 1]
            ELSE
                LET first == CHOOSE l \in failing :
                                 \A k \in failing : Rank(l) <= Rank(k)
                    done == {l \in attempted : Rank(l) < Rank(first)}
                IN  [m EXCEPT
                        !.transform = [l \in Layers |->
                            IF l \in done
                            THEN translate3d(0, scrolled * Multiplier(l), 0)
                            ELSE @[l]],
                        !.written = @ \cup done,
                        !.raised = TRUE,
                        !.ran = @ + 1]

updateParallaxStale(m, els) == applyUpdate(m, els, m.reqY)

updateParallax(m, els) == applyUpdate(m, els, pageYOffset)

RECURSIVE runCallbacks(_, _, _)
runCallbacks(q, m, els) ==
    IF q = <<>> THEN m
    ELSE runCallbacks(Tail(q), updateParallax(m, els), els)

\* ------------------------------------------------------------------ Init
\* The field values the model draws from, as sequences of characters.
Fields == {"name", "email"}
OriginalLabel == "Send Message"
Sending == "Sending..."
NoMessage == "none"

\* The page as loaded when it has no contact form, or before anything is
\* typed and submitted.
FormQuiet ==
    /\ value = [f \in Fields |-> <<>>]
    /\ fieldError = [f \in Fields |-> FALSE]
    /\ errorMessage = [f \in Fields |-> NoMessage]
    /\ buttonText = OriginalLabel
    /\ buttonDisabled = FALSE
    /\ requests = <<>>

\* The page before new ThemeController(), without a toggle button.
ThemeQuiet ==
    /\ themePhase = "loaded"
    /\ hasButton = FALSE
    /\ storageMode = "ok"
    /\ stored = Null
    /\ systemDark = FALSE
    /\ currentTheme = Null
    /\ dataTheme = Null
    /\ clickListeners = {}
    /\ changeListeners = {}
    /\ toggling = FALSE
    /\ timers = 0
    /\ themeDestroyed = FALSE
    /\ userClicked = FALSE
    /\ initialStored = Null

\* initApp() skipped the parallax effect (reduced motion or a narrow window).
ParallaxQuiet ==
    /\ variant = "inline"
    /\ phase = "loaded"
    /\ dom = {}
    /\ pageYOffset = 0
    /\ scrollEventPending = FALSE
    /\ listeners = {}
    /\ rafQueue = <<>>
    /\ transform = [l \in Layers |-> NoTransform]
    /\ elements = [l \in Layers |-> Null]
    /\ ticking = FALSE
    /\ lastScrollY = 0
    /\ thisHandleScroll = Proto
    /\ nextFn = 1
    /\ destroyCalls = 0
    /\ raised = FALSE
    /\ lastOp = "load"
    /\ written = {}
    /\ ran = 0
    /\ delivered = 0
    /\ burst = 0
    /\ reqY = 0

Init ==
    /\ variant \in Variants
    /\ phase = "loaded"
    /\ dom \in SUBSET Layers
    /\ pageYOffset = 0
    /\ scrollEventPending = FALSE
    /\ listeners = {}
    /\ rafQueue = <<>>
    /\ transform = [l \in Layers |-> NoTransform]
    /\ elements = [l \in Layers |-> Null]
    /\ ticking = FALSE
    /\ lastScrollY = 0
    /\ thisHandleScroll = Proto
    /\ nextFn = 1
    /\ destroyCalls = 0
    /\ raised = FALSE
    /\ lastOp = "load"
    /\ written = {}
    /\ ran = 0
    /\ delivered = 0
    /\ burst = 0
    /\ reqY = 0
    /\ FormQuiet
    /\ ThemeQuiet

\* --------------------------------------------------------------- actions
\* The user (or a script) moves the page; the browser owes a scroll event.
ScrollTo(p) ==
    /\ p # pageYOffset
    /\ pageYOffset' = p
    /\ scrollEventPending' = TRUE
    /\ lastOp' = "scrollTo"
    /\ written' = {}
    /\ ran' = 0
    /\ UNCHANGED <<variant, phase, dom, listeners, rafQueue, transform,
                   elements, ticking, lastScrollY, thisHandleScroll, nextFn,
                   destroyCalls, raised, delivered, burst, reqY>>
    /\ UNCHANGED <<formVars, themeVars>>

\* A layer element is inserted into the page.
InsertLayer(l) ==
    /\ l \notin dom
    /\ dom' = dom \cup {l}
    /\ lastOp' = "insertLayer"
    /\ written' = {}
    /\ ran' = 0
    /\ UNCHANGED <<variant, phase, pageYOffset, scrollEventPending, listeners,
                   rafQueue, transform, elements, ticking, lastScrollY,
                   thisHandleScroll, nextFn, destroyCalls, raised, delivered,
                   burst, reqY>>
    /\ UNCHANGED <<formVars, themeVars>>

\* init(): the listener registered and the value left in this.handleScroll.
initListener == nextFn
initHandleScroll == IF variant = "inline" THEN nextFn ELSE thisHandleScroll
initNextFn == IF variant = "inline" THEN nextFn + 2 ELSE nextFn + 1

initSubscribesAlways(els) == TRUE

initSubscribes(els) == hasParallaxElements(els)

\* new ParallaxController(): constructor followed by init().
Construct ==
    /\ phase = "loaded"
    /\ phase' = "constructed"
    /\ LET els == [l \in Layers |-> querySelector(dom, l)]
           m0 == [Cur EXCEPT !.ticking = FALSE, !.lastScrollY = 0]
       IN  /\ elements' = els
           /\ IF ~initSubscribes(els)
              THEN /\ Commit(m0)
                   /\ UNCHANGED <<listeners, thisHandleScroll, nextFn>>
              ELSE /\ listeners' = listeners \cup {initListener}
                   /\ thisHandleScroll' = initHandleScroll
                   /\ nextFn' = initNextFn
                   /\ Commit(updateParallax(m0, els))
    /\ lastOp' = "construct"
    /\ UNCHANGED <<variant, dom, pageYOffset, scrollEventPending,
                   destroyCalls, delivered, burst>>
    /\ UNCHANGED <<formVars, themeVars>>

\* The browser dispatches a scroll event to the window's listeners.  Every
\* listener the controller registers is its handleScroll bound to itself.
FireScroll ==
    /\ delivered < MaxBurst
    /\ scrollEventPending' = FALSE
    /\ IF listeners # {}
       THEN /\ Commit(handleScroll(Cur))
            /\ delivered' = delivered + 1
       ELSE /\ Commit(Cur)
            /\ UNCHANGED delivered
    /\ lastOp' = "scroll"
    /\ UNCHANGED <<variant, phase, dom, pageYOffset, listeners, elements,
                   thisHandleScroll, nextFn, destroyCalls, burst>>
    /\ UNCHANGED <<formVars, themeVars>>

\* A frame boundary: the browser runs the callbacks requested so far.
Frame ==
    /\ Commit([runCallbacks(rafQueue, Cur, elements) EXCEPT !.rafQueue = <<>>])
    /\ delivered' = 0
    /\ burst' = delivered
    /\ lastOp' = "frame"
    /\ UNCHANGED <<variant, phase, dom, pageYOffset, scrollEventPending,
                   listeners, elements, thisHandleScroll, nextFn,
                   destroyCalls>>
    /\ UNCHANGED <<formVars, themeVars>>

\* destroy(): the function handed to removeEventListener.
destroyTarget == IF variant = "inline" THEN thisHandleScroll ELSE nextFn
destroyNextFn == IF variant = "inline" THEN nextFn ELSE nextFn + 1

DestroyCancels ==
    /\ phase = "constructed"
    /\ destroyCalls < MaxDestroy
    /\ destroyCalls' = destroyCalls + 1
    /\ listeners' = listeners \ {destroyTarget}
    /\ nextFn' = destroyNextFn
    /\ rafQueue' = <<>>
    /\ lastOp' = "destroy"
    /\ written' = {}
    /\ ran' = 0
    /\ UNCHANGED <<variant, phase, dom, pageYOffset, scrollEventPending,
                   transform, elements, ticking, lastScrollY,
                   thisHandleScroll, raised, delivered, burst, reqY>>
    /\ UNCHANGED <<formVars, themeVars>>

Destroy ==
    /\ phase = "constructed"
    /\ destroyCalls < MaxDestroy
    /\ destroyCalls' = destroyCalls + 1
    /\ listeners' = listeners \ {destroyTarget}
    /\ nextFn' = destroyNextFn
    /\ lastOp' = "destroy"
    /\ written' = {}
    /\ ran' = 0
    /\ UNCHANGED <<variant, phase, dom, pageYOffset, scrollEventPending,
                   rafQueue, transform, elements, ticking, lastScrollY,
                   thisHandleScroll, raised, delivered, burst, reqY>>
    /\ UNCHANGED <<formVars, themeVars>>

Next ==
    \/ \E p \in Positions : ScrollTo(p)
    \/ \E l \in Layers : InsertLayer(l)
    \/ Construct
    \/ FireScroll
    \/ Frame
    \/ Destroy

Spec == Init /\ [][Next]_vars

\* The page's layers stay as loaded: the operations of Next without the
\* insertion of layers, which no scheduling question depends on.
LiveNext ==
    \/ \E p \in Positions : ScrollTo(p)
    \/ Construct
    \/ FireScroll
    \/ Frame
    \/ Destroy

\* Every change of position is followed by its scroll event, and every
\* frame boundary eventually comes.
LiveSpec ==
    /\ Init
    /\ [][LiveNext]_vars
    /\ WF_vars(FireScroll /\ scrollEventPending)
    /\ WF_vars(Frame)

TypeOK ==
    /\ variant \in Variants
    /\ phase \in {"loaded", "constructed"}
    /\ dom \subseteq Layers
    /\ pageYOffset \in Positions
    /\ lastScrollY \in Positions
    /\ ticking \in BOOLEAN
    /\ Cardinality(listeners) <= 1
    /\ Len(rafQueue) <= MaxBurst
    /\ raised = FALSE

\* ========================================================== contact form
MaxSubmit == 2

FieldType(f) == IF f = "email" THEN "email" ELSE "text"

ValuesOf(f) ==
    IF f = "email"
    THEN {<<>>, <<"a", "@", "a">>, <<" ", "a", "@", "a", ".", "a">>}
    ELSE {<<>>, <<" ">>, <<"a">>}

\* String.prototype.trim
RECURSIVE trimLeft(_)
trimLeft(v) == IF v # <<>> /\ Head(v) = " " THEN trimLeft(Tail(v)) ELSE v

RECURSIVE trimRight(_)
trimRight(v) ==
    IF v # <<>> /\ v[Len(v)] = " "
    THEN trimRight(SubSeq(v, 1, Len(v) - 1))
    ELSE v

trim(v) == trimRight(trimLeft(v))

\* /^[^\s@]+@[^\s@]+\.[^\s@]+$/.test(v)
emailRegexTest(v) ==
    \E i \in 2 .. Len(v) - 3 :
        /\ v[i] = "@"
        /\ \A k \in 1 .. Len(v) : k # i => v[k] \notin {" ", "@"}
        /\ \E d \in i + 2 .. Len(v) - 1 : v[d] = "."

\* validateField: "ok", or the error it shows.
validateFieldNoTrim(f, v) ==
    IF v = <<>> THEN "required"
    ELSE IF FieldType(f) = "email" /\ ~emailRegexTest(v) THEN "email"
    ELSE "ok"

validateField(f, v) ==
    LET val == trim(v)
    IN  IF val = <<>> THEN "required"
        ELSE IF FieldType(f) = "email" /\ ~emailRegexTest(val) THEN "email"
        ELSE "ok"

isValidAny(results) == \E f \in Fields : results[f] = "ok"

isValid(results) == \A f \in Fields : results[f] = "ok"

\* The button after the promise chain of one request has run.
buttonAfterChainThenOnly(outcome, orig) ==
    IF outcome = "rejected"
    THEN [text |-> buttonText, disabled |-> buttonDisabled]
    ELSE [text |-> orig, disabled |-> FALSE]

buttonAfterChain(outcome, orig) == [text |-> orig, disabled |-> FALSE]

Outcomes == {"ok", "rejected", "errors", "noErrors", "notJson"}

FormInit ==
    /\ ParallaxQuiet
    /\ ThemeQuiet
    /\ value \in [Fields -> UNION {ValuesOf(f) : f \in Fields}]
    /\ \A f \in Fields : value[f] \in ValuesOf(f)
    /\ fieldError = [f \in Fields |-> FALSE]
    /\ errorMessage = [f \in Fields |-> NoMessage]
    /\ buttonText = OriginalLabel
    /\ buttonDisabled = FALSE
    /\ requests = <<>>

FormQuietStep(op) ==
    /\ lastOp' = op
    /\ written' = {}
    /\ ran' = 0
    /\ UNCHANGED <<parallaxVars, themeVars>>

\* The user edits a field: the 'input' listener is clearFieldError.
Input(f, v) ==
    /\ v \in ValuesOf(f)
    /\ v # value[f]
    /\ value' = [value EXCEPT ![f] = v]
    /\ fieldError' = [fieldError EXCEPT ![f] = FALSE]
    /\ errorMessage' = [errorMessage EXCEPT ![f] = NoMessage]
    /\ FormQuietStep("input")
    /\ UNCHANGED <<buttonText, buttonDisabled, requests, pageYOffset,
                   scrollEventPending>>

\* The field loses focus: the 'blur' listener is validateField.
Blur(f) ==
    /\ LET r == validateField(f, value[f])
       IN  /\ fieldError' = [fieldError EXCEPT ![f] = (r # "ok")]
           /\ errorMessage' = [errorMessage EXCEPT
                                 ![f] = IF r # "ok" THEN r ELSE @]
    /\ FormQuietStep("blur")
    /\ UNCHANGED <<value, buttonText, buttonDisabled, requests, pageYOffset,
                   scrollEventPending>>

\* handleFormSubmit, up to the call of fetch.
Submit ==
    LET results == [f \in Fields |-> validateField(f, value[f])]
    IN  /\ isValid(results) => Len(requests) < MaxSubmit
        /\ fieldError' = [f \in Fields |-> results[f] # "ok"]
        /\ errorMessage' = [f \in Fields |->
              IF results[f] # "ok" THEN results[f] ELSE errorMessage[f]]
        /\ IF ~isValid(results)
           THEN /\ \E top \in Positions :
                      /\ pageYOffset' = top
                      /\ scrollEventPending' =
                            (scrollEventPending \/ top # pageYOffset)
                /\ UNCHANGED <<buttonText, buttonDisabled, requests>>
           ELSE /\ requests' = Append(requests,
                      [stage |-> "fetching", orig |-> buttonText,
                       outcome |-> "pending", shown |-> <<>>,
                       reset |-> FALSE])
                /\ buttonText' = Sending
                /\ buttonDisabled' = TRUE
                /\ UNCHANGED <<pageYOffset, scrollEventPending>>
        /\ UNCHANGED value
        /\ FormQuietStep("submit")

\* fetch settles and the then / catch / finally handlers run; after finally
\* nothing refers to the closure's originalText any more.
Settle(i, outcome) ==
    /\ i \in 1 .. Len(requests)
    /\ requests[i].stage = "fetching"
    /\ LET r == requests[i]
           b == buttonAfterChain(outcome, r.orig)
       IN  /\ buttonText' = b.text
           /\ buttonDisabled' = b.disabled
           /\ value' = IF outcome = "ok"
                       THEN [f \in Fields |-> <<>>]
                       ELSE value
           /\ requests' = [requests EXCEPT ![i] =
                 [r EXCEPT
                    !.orig = Null,
                    !.outcome = outcome,
                    !.stage = IF outcome \in {"ok", "rejected"}
                              THEN "done" ELSE "parsing",
                    !.shown = CASE outcome = "ok" -> Append(@, "success")
                                [] outcome = "rejected" ->
                                       Append(@, "errorGeneric")
                                [] OTHER -> @,
                    !.reset = (outcome = "ok")]]
    /\ FormQuietStep("settle")
    /\ UNCHANGED <<fieldError, errorMessage, pageYOffset, scrollEventPending>>

\* response.json() of a non-ok response settles and its handler runs.
Parsed(i) ==
    /\ i \in 1 .. Len(requests)
    /\ requests[i].stage = "parsing"
    /\ requests' = [requests EXCEPT ![i] =
          [@ EXCEPT
             !.stage = "done",
             !.shown = CASE requests[i].outcome = "errors" ->
                                Append(@, "errorJoined")
                         [] requests[i].outcome = "noErrors" ->
                                Append(@, "errorGeneric")
                         [] OTHER -> @]]
    /\ FormQuietStep("parsed")
    /\ UNCHANGED <<value, fieldError, errorMessage, buttonText,
                   buttonDisabled, pageYOffset, scrollEventPending>>

FormNext ==
    \/ \E f \in Fields : \E v \in ValuesOf(f) : Input(f, v)
    \/ \E f \in Fields : Blur(f)
    \/ Submit
    \/ \E i \in 1 .. MaxSubmit : \E o \in Outcomes : Settle(i, o)
    \/ \E i \in 1 .. MaxSubmit : Parsed(i)

FormSpec == FormInit /\ [][FormNext]_vars

\* The field values stay as the page loaded them (or as a reset left them):
\* the operations of FormNext without the editing of fields.
FormLiveNext ==
    \/ Submit
    \/ \E i \in 1 .. MaxSubmit : \E o \in Outcomes : Settle(i, o)
    \/ \E i \in 1 .. MaxSubmit : Parsed(i)

\* Every request the page issued settles, and so does the reading of a body.
FormLiveSpec ==
    /\ FormInit
    /\ [][FormLiveNext]_vars
    /\ \A i \in 1 .. MaxSubmit :
          /\ WF_vars(\E o \in Outcomes : Settle(i, o))
          /\ WF_vars(Parsed(i))

\* ======================================================= theme controller
MaxTimers == 2

Themes == {"dark", "light"}
StorageModes == {"ok", "throws", "quota"}
ToggleProto == "ThemeController.prototype.toggleTheme"
ClickArrow == "() => this.toggleTheme()"
ChangeArrow == "(e) => { ... }"

preferred(dark) == IF dark THEN "dark" ELSE "light"

\* getStoredTheme(): the item, or null when localStorage throws.
getStoredTheme == IF storageMode = "throws" THEN Null ELSE stored

\* storeTheme(theme): the item afterwards; a throwing setItem is swallowed.
storeTheme(theme) == IF storageMode = "ok" THEN theme ELSE stored

applyThemeNoAttribute(theme) ==
    [dataTheme |-> dataTheme, currentTheme |-> theme,
     stored |-> storeTheme(theme)]

applyTheme(theme) ==
    [dataTheme |-> theme, currentTheme |-> theme, stored |-> storeTheme(theme)]

CommitTheme(t) ==
    /\ dataTheme' = t.dataTheme
    /\ currentTheme' = t.currentTheme
    /\ stored' = t.stored

\* The function destroy() hands to removeEventListener.
themeDestroyTarget == ToggleProto

ThemeInit ==
    /\ ParallaxQuiet
    /\ FormQuiet
    /\ themePhase = "loaded"
    /\ hasButton \in BOOLEAN
    /\ storageMode \in StorageModes
    /\ stored \in Themes \cup {Null}
    /\ storageMode = "throws" => stored = Null
    /\ initialStored = stored
    /\ systemDark \in BOOLEAN
    /\ currentTheme = Null
    /\ dataTheme = Null
    /\ clickListeners = {}
    /\ changeListeners = {}
    /\ toggling = FALSE
    /\ timers = 0
    /\ themeDestroyed = FALSE
    /\ userClicked = FALSE

ThemeQuietStep(op) ==
    /\ lastOp' = op
    /\ written' = {}
    /\ ran' = 0
    /\ UNCHANGED <<parallaxVars, formVars, pageYOffset, scrollEventPending,
                   hasButton, storageMode, initialStored>>

\* new ThemeController(): constructor followed by init().
ThemeConstruct ==
    /\ themePhase = "loaded"
    /\ themePhase' = "constructed"
    /\ LET theme == IF getStoredTheme # Null
                    THEN getStoredTheme
                    ELSE preferred(systemDark)
       IN  IF ~hasButton
           THEN /\ currentTheme' = theme
                /\ UNCHANGED <<dataTheme, stored, clickListeners,
                               changeListeners>>
           ELSE /\ CommitTheme(applyTheme(theme))
                /\ clickListeners' = clickListeners \cup {ClickArrow}
                /\ changeListeners' = changeListeners \cup {ChangeArrow}
    /\ ThemeQuietStep("themeConstruct")
    /\ UNCHANGED <<systemDark, toggling, timers, themeDestroyed, userClicked>>

\* The user clicks the toggle button; toggleTheme runs for each listener.
Click ==
    /\ hasButton
    /\ userClicked' = TRUE
    /\ IF clickListeners # {}
       THEN /\ timers < MaxTimers
            /\ toggling' = TRUE
            /\ CommitTheme(applyTheme(IF currentTheme = "dark"
                                      THEN "light" ELSE "dark"))
            /\ timers' = timers + 1
       ELSE UNCHANGED <<toggling, dataTheme, currentTheme, stored, timers>>
    /\ ThemeQuietStep("click")
    /\ UNCHANGED <<themePhase, systemDark, clickListeners, changeListeners,
                   themeDestroyed>>

\* A 600 ms timeout of toggleTheme fires.
TimerFires ==
    /\ timers > 0
    /\ timers' = timers - 1
    /\ toggling' = FALSE
    /\ ThemeQuietStep("timer")
    /\ UNCHANGED <<themePhase, stored, systemDark, currentTheme, dataTheme,
                   clickListeners, changeListeners, themeDestroyed,
                   userClicked>>

\* The system colour scheme changes; the media query's listeners run.
SystemChange ==
    /\ systemDark' = ~systemDark
    /\ IF changeListeners # {} /\ getStoredTheme = Null
       THEN CommitTheme(applyTheme(preferred(~systemDark)))
       ELSE UNCHANGED <<dataTheme, currentTheme, stored>>
    /\ ThemeQuietStep("systemChange")
    /\ UNCHANGED <<themePhase, clickListeners, changeListeners, toggling,
                   timers, themeDestroyed, userClicked>>

\* ThemeController.destroy()
ThemeDestroy ==
    /\ themePhase = "constructed"
    /\ ~themeDestroyed
    /\ themeDestroyed' = TRUE
    /\ clickListeners' = IF hasButton
                         THEN clickListeners \ {themeDestroyTarget}
                         ELSE clickListeners
    /\ ThemeQuietStep("themeDestroy")
    /\ UNCHANGED <<themePhase, stored, systemDark, currentTheme, dataTheme,
                   changeListeners, toggling, timers, userClicked>>

ThemeNext ==
    \/ ThemeConstruct
    \/ Click
    \/ TimerFires
    \/ SystemChange
    \/ ThemeDestroy

ThemeSpec == ThemeInit /\ [][ThemeNext]_vars

\* ---------------------------------------------------------------- claims
Present == {l \in Layers : elements[l] # Null}

\* C1: in every reachable state at most one frame-callback request for
\* updateParallax is outstanding (requested and not yet run).
C1_AtMostOneOutstanding == Len(rafQueue) <= 1

\* A second notification arrived while the request of the first was outstanding.
C1_Witness == Len(rafQueue) = 1 /\ delivered >= 2

\* C2: when one or more scroll notifications were delivered since the last
\* frame boundary, the next frame boundary executes updateParallax exactly
\* once; a notification never executes it, and one that arrives while an
\* update is pending changes neither the callback list nor the controller.
C2_Coalescing ==
    [][/\ (lastOp' = "frame" /\ delivered >= 1) => ran' = 1
       /\ lastOp' = "scroll" => ran' = 0 /\ written' = {}
       /\ (lastOp' = "scroll" /\ ticking) =>
             /\ rafQueue' = rafQueue
             /\ ticking' = ticking
             /\ lastScrollY' = lastScrollY
             /\ transform' = transform]_vars

\* A frame boundary closed a burst of several notifications with one execution.
C2_Witness == lastOp = "frame" /\ burst >= 2 /\ ran = 1

\* C3: once destroy() has been called on a controller that had subscribed, a
\* scroll notification invokes no handleScroll and requests no frame callback.
C3_TeardownStopsDelivery ==
    [][(lastOp' = "scroll" /\ destroyCalls >= 1) =>
           /\ delivered' = delivered
           /\ rafQueue' = rafQueue
           /\ ran' = 0]_vars

\* C4: construction with at least one layer present runs one update that
\* writes the transform of every present layer, whatever the scroll position.
C4_InitialUpdateWrites ==
    (lastOp = "construct" /\ hasParallaxElements(elements)) =>
        /\ ran = 1
        /\ written = Present
        /\ \A l \in Present : transform[l] # NoTransform

\* C5: an execution of updateParallax less than one pixel away from
\* lastScrollY writes no layer, keeps lastScrollY and clears ticking; one
\* pixel or more away it writes every present layer and sets lastScrollY to
\* the current position.
C5_ThresholdSkip ==
    [][ran' = 1 =>
          IF Abs(pageYOffset - lastScrollY) < Scale
          THEN /\ written' = {}
               /\ transform' = transform
               /\ lastScrollY' = lastScrollY
               /\ ticking' = FALSE
          ELSE /\ written' = {l \in Layers : elements'[l] # Null}
               /\ lastScrollY' = pageYOffset
               /\ ticking' = FALSE]_vars

\* A frame callback ran half a pixel or so away from lastScrollY and skipped.
C5_Witness ==
    /\ lastOp = "frame" /\ ran = 1 /\ written = {}
    /\ pageYOffset # lastScrollY /\ Present # {}

\* C6: every present layer that has been written holds the translation
\* -0.2, -0.5 or -0.8 times lastScrollY, and the present layers are written
\* together.
C6_Proportionality ==
    /\ \A l \in Present : transform[l] # NoTransform =>
          transform[l] = <<0,
                           lastScrollY * (CASE l = "back" -> 0 - 2
                                            [] l = "mid" -> 0 - 5
                                            [] l = "front" -> 0 - 8),
                           0>>
    /\ \A l, k \in Present :
          (transform[l] = NoTransform) <=> (transform[k] = NoTransform)

\* All three layers hold the translation of a position other than zero.
C6_Witness ==
    /\ Present = Layers /\ lastScrollY # 0
    /\ \A l \in Layers : transform[l] # NoTransform

\* C7: an update run from a frame callback that writes gives the layers and
\* lastScrollY the position read when the callback runs.
C7_FrameTimePosition ==
    (lastOp = "frame" /\ written # {}) =>
        /\ lastScrollY = pageYOffset
        /\ \A l \in written :
              transform[l] = translate3d(0, pageYOffset * Multiplier(l), 0)

\* The position moved between the request and the frame that wrote.
C7_Witness ==
    lastOp = "frame" /\ written # {} /\ reqY # pageYOffset /\ burst >= 1

\* C8: while the controller stays subscribed and not destroyed, once the
\* scroll position stops changing the controller reaches a state with no
\* update pending and lastScrollY less than one pixel from the position.
Live == listeners # {} /\ destroyCalls = 0

Settled ==
    ~ticking /\ rafQueue = <<>> /\ Abs(pageYOffset - lastScrollY) < Scale

C8_NeverFallsBehind ==
    (<>[]Live /\ <>[][pageYOffset' = pageYOffset]_vars) => []<>Settled

\* A live controller caught up with a position it had to write.
C8_Witness ==
    /\ Live /\ Settled /\ lastOp = "frame" /\ written # {}
    /\ ~scrollEventPending

\* C9: a controller constructed with no layer present has no scroll
\* listener, no frame callback and no written transform, ever after.
C9_InertConstruction ==
    (phase = "constructed" /\ ~hasParallaxElements(elements)) =>
        /\ listeners = {}
        /\ rafQueue = <<>>
        /\ ~ticking
        /\ \A l \in Layers : transform[l] = NoTransform
        /\ written = {} /\ ran = 0

\* An inert controller saw destroy() and then a scroll event.
C9_Witness ==
    /\ phase = "constructed" /\ ~hasParallaxElements(elements)
    /\ destroyCalls >= 1 /\ lastOp = "scroll"

\* C10: an update writes the layers present at construction and no other,
\* raises nothing, and a layer absent at construction is never written even
\* when it is in the page later.
C10_PartialLayers ==
    /\ ~raised
    /\ written \in {{}, Present}
    /\ \A l \in Layers : elements[l] = Null => transform[l] = NoTransform

\* Only some layers were present; another one was inserted later and the
\* update wrote the original ones.
C10_Witness ==
    /\ phase = "constructed" /\ written # {} /\ written = Present
    /\ \E l \in dom : elements[l] = Null

\* C11: destroy() leaves the requested frame callback, ticking, lastScrollY
\* and the transforms as they are; a frame boundary after destroy() still
\* runs the requested updateParallax once, without raising, by the threshold
\* rule, and clears ticking.
C11_DestroyKeepsPendingUpdate ==
    [][/\ lastOp' = "destroy" =>
             /\ rafQueue' = rafQueue
             /\ ticking' = ticking
             /\ lastScrollY' = lastScrollY
             /\ transform' = transform
       /\ (lastOp' = "frame" /\ destroyCalls >= 1 /\ ticking) =>
             /\ ran' = 1
             /\ ~raised'
             /\ ~ticking'
             /\ rafQueue' = <<>>
             /\ IF Abs(pageYOffset - lastScrollY) < Scale
                THEN written' = {} /\ lastScrollY' = lastScrollY
                ELSE written' = Present /\ lastScrollY' = pageYOffset]_vars

\* After destroy() a frame boundary ran the update requested before it, and
\* the update wrote the layers.
C11_Witness ==
    /\ lastOp = "frame" /\ destroyCalls >= 1 /\ listeners = {}
    /\ ran = 1 /\ written # {} /\ burst >= 1

\* C12: ticking is true exactly when one frame callback is outstanding, and
\* every execution of updateParallax leaves ticking false.
C12_TickingMatchesQueue ==
    /\ ticking <=> Len(rafQueue) = 1
    /\ ran >= 1 => ~ticking

\* A frame callback that skipped by the threshold cleared ticking.
C12_Witness ==
    /\ lastOp = "frame" /\ ran = 1 /\ written = {} /\ ~ticking
    /\ rafQueue = <<>> /\ burst = MaxBurst

InFlight == \E i \in DOMAIN requests : requests[i].stage = "fetching"

\* C13: as long as only one submission is made, the submit button is
\* disabled and reads 'Sending...' while its request is in flight, and the
\* request is followed by a state where the button is enabled and carries
\* its original label, whatever the outcome.
C13_ButtonRestored ==
    ([](Len(requests) <= 1)) =>
        /\ [](InFlight => (buttonDisabled /\ buttonText = "Sending..."))
        /\ InFlight ~>
              (~InFlight /\ ~buttonDisabled /\ buttonText = OriginalLabel)

\* The only request was rejected and the button is back.
C13_Witness ==
    /\ Len(requests) = 1 /\ requests[1].outcome = "rejected"
    /\ ~buttonDisabled /\ buttonText = OriginalLabel

\* C14: a request that has run to its end has shown exactly one
\* notification: the success one, with a form reset, when the response was
\* ok, and an error one, without reset, in every other outcome.
C14_OneNotification ==
    \A i \in DOMAIN requests :
        requests[i].stage = "done" =>
            IF requests[i].outcome = "ok"
            THEN requests[i].shown = <<"success">> /\ requests[i].reset
            ELSE /\ Len(requests[i].shown) = 1
                 /\ requests[i].shown[1] \in {"errorGeneric", "errorJoined"}
                 /\ ~requests[i].reset

\* The values of the model that are empty after trimming, or are no e-mail
\* address in an e-mail field.
FailingValue(f, v) ==
    \/ v \in {<<>>, <<" ">>}
    \/ f = "email" /\ v = <<"a", "@", "a">>

\* C15: a submit with a failing required field issues no request, leaves
\* the button and the field values alone and marks every failing field.
C15_InvalidSubmit ==
    [][(lastOp' = "submit" /\ \E f \in Fields : FailingValue(f, value[f])) =>
           /\ requests' = requests
           /\ buttonText' = buttonText
           /\ buttonDisabled' = buttonDisabled
           /\ value' = value
           /\ \A f \in Fields :
                 FailingValue(f, value[f]) => fieldError'[f]]_vars

\* A submit with a good name and a bad e-mail address marked the address only.
C15_Witness ==
    /\ lastOp = "submit" /\ requests = <<>>
    /\ value["name"] = <<"a">> /\ value["email"] = <<"a", "@", "a">>
    /\ fieldError["email"] /\ ~fieldError["name"]
    /\ buttonText = OriginalLabel /\ ~buttonDisabled

\* C16: the button is disabled while a request is in flight, and once all
\* requests have settled it is enabled with the label it had before the
\* first submission.
C16_OverlappingSubmissions ==
    /\ InFlight => buttonDisabled
    /\ (requests # <<>> /\ ~InFlight) =>
          (~buttonDisabled /\ buttonText = OriginalLabel)

\* C17: with a toggle button and storage empty at load, a change of the
\* system colour scheme before any click makes the theme the new system
\* preference; after a click it leaves the theme as it is.
C17_FollowsSystemUntilClicked ==
    [][(lastOp' = "systemChange" /\ hasButton /\ themePhase = "constructed") =>
          IF userClicked
          THEN currentTheme' = currentTheme /\ dataTheme' = dataTheme
          ELSE initialStored = Null =>
                  /\ currentTheme' = preferred(systemDark')
                  /\ dataTheme' = preferred(systemDark')]_vars

\* C18: after destroy() a click on the toggle changes neither currentTheme
\* nor data-theme nor the stored theme.
C18_DestroyStopsToggle ==
    [][(lastOp' = "click" /\ themeDestroyed) =>
           /\ currentTheme' = currentTheme
           /\ dataTheme' = dataTheme
           /\ stored' = stored]_vars

\* C19: with a toggle button, from construction on data-theme equals
\* currentTheme and, when storage works, so does the stored theme; a click
\* flips currentTheme and takes the other two along, and runs to its end
\* (the timeout is set) also when storage throws.
C19_ThemeConsistency ==
    /\ []((hasButton /\ themePhase = "constructed") =>
             /\ dataTheme = currentTheme
             /\ currentTheme \in Themes
             /\ storageMode = "ok" => stored = currentTheme)
    /\ [][(lastOp' = "click" /\ hasButton /\ themePhase = "constructed") =>
             /\ currentTheme' = (IF currentTheme = "dark"
                                 THEN "light" ELSE "dark")
             /\ dataTheme' = currentTheme'
             /\ storageMode = "ok" => stored' = currentTheme'
             /\ timers' = timers + 1 /\ toggling']_vars

\* Storage throws, the system scheme changed and a click toggled the theme.
C19_Witness ==
    /\ lastOp = "click" /\ storageMode = "throws" /\ hasButton
    /\ themePhase = "constructed" /\ dataTheme = currentTheme
    /\ currentTheme = preferred(systemDark) /\ toggling
====
